---- MODULE Spec2Model ----
(***************************************************************************)
(* Model of the custom-search event queue (pkg/searcher) and of the        *)
(* experiment actor (internal/experiment.go) of determined's master.       *)
(*                                                                         *)
(* Go values are modelled as follows.                                      *)
(*  - A slice is a window (off, len) on a backing array; two slices made   *)
(*    from one another share the array until an append reallocates.        *)
(*  - *SearcherEvent pointers are indices into the heap of event objects.  *)
(*  - An int (64 bit) argument is a pair of words [hi, lo], its value      *)
(*    being hi * 2^32 + lo with lo in the int32 range; the conversion      *)
(*    int32(x) keeps the low word.                                         *)
(***************************************************************************)
EXTENDS Integers, Sequences, FiniteSets, TLC

(* ------------------------------ bounds --------------------------------- *)

\* Enqueue calls made on one queue.
MaxEnqueues == 3

\* Writes the holder of a GetEvents result makes through it.
MaxClientWrites == 1

\* Operations in one batch returned by a Searcher call.
MaxOps == 2

(* --------------------------- int32 arithmetic -------------------------- *)

MaxInt32 == 2147483647

MinInt32 == (-MaxInt32) - 1

Int32IncByTwo(x) == IF x >= MaxInt32 - 1 THEN MinInt32 ELSE x + 2

\* x + 1 on an int32 (Go wraps signed overflow).
Int32Inc(x) == IF x = MaxInt32 THEN MinInt32 ELSE x + 1

\* An int whose value is hi * 2^32 + lo.
IntWords(hi, lo) == [hi |-> hi, lo |-> lo]

\* int32(x) for an int x.
ToInt32(x) == x.lo

\* The int value of an int32.
FromInt32(i) == IntWords(IF i < 0 THEN -1 ELSE 0, i)

(* --------------------------- event vocabulary -------------------------- *)

EventKinds ==
    {"InitialOperations", "TrialCreated", "TrialProgress",
     "ValidationCompleted", "TrialExitedEarly", "TrialClosed"}

\* A SearcherEvent as its creator hands it to Enqueue: Id is the zero value.
NewEvent(k, r) == [Id |-> 0, kind |-> k, rid |-> r]

\* The events the queue is driven with: the queue does not read an event's
\* payload, so three distinct payloads tell the events apart.
NewEvents ==
    {NewEvent("InitialOperations", "-"), NewEvent("TrialCreated", "R1"),
     NewEvent("TrialProgress", "R1")}

\* Progress values pushed by the client, in tenths.
ProgressInputs == {0, 5, 10}

\* Arguments of RemoveUpTo: the ids around those assigned, in the int32
\* range (high word 0) and 2^32 beyond it (high word 1).
EventIDArgs ==
    {IntWords(h, l) : h \in {0, 1}, l \in 0..(MaxEnqueues + 1)}

NoSlice == [off |-> 0, len |-> 0]

VARIABLES
    objs,        \* heap of event objects, objs[p] for pointer p
    qArr,        \* backing array of q.events (pointers, 0 is an unused slot)
    qEvents,     \* q.events: the window [off, len] on qArr
    EventCount,  \* q.EventCount
    progress,    \* customSearchState.CustomSearchProgress
    hasView,     \* the client holds a slice returned by GetEvents
    shared,      \* the client's slice still shares qArr
    vArr,        \* the client's backing array when it is no longer shared
    view,        \* the client's slice: the window [off, len]
    restored,    \* the customSearchState restored from the last snapshot
    lastOp,      \* the operation executed by the last step
    arg,         \* the last RemoveUpTo's argument: its high word, and the
                 \* index of the event that had the argument as id (0: none)
    ret,         \* the error returned by the last RemoveUpTo
    writes,      \* writes made through the slice GetEvents returned
    assigned,    \* history: the id assigned by the k-th Enqueue
    enqueued,    \* history: the event put on the queue by the k-th Enqueue
    acked,       \* history: highest id removed by a successful RemoveUpTo
    hook,        \* the hook of the customSearch the last step called: its
                 \* name, its arguments and the operations it returned
    pushed       \* history: the last progress pushed, <<>> before the first

qvars == <<objs, qArr, qEvents, EventCount, progress, hasView, shared, vArr,
           view, restored, lastOp, arg, ret, writes, assigned, enqueued,
           acked, hook, pushed>>

VARIABLES
    State,               \* e.State
    TrialSearcherState,  \* e.TrialSearcherState: request id -> state
    children,            \* ctx.Children(): request ids of the live trials
    actor,               \* the experiment actor: new, running, stopping
                         \* (Stop was called), stopped, failed
    lastMsg,             \* the message the last step handled
    resp,                \* what the handler answered its caller
    told,                \* the states the handler told to trials
    call,                \* the Searcher call the handler made
    updatedTrials,       \* updatedTrials of the handler's processOperations
    ran,                 \* the operations a recorded processOperations
                         \* executed, in order
    stateTold,           \* the children updateState told of the new state
    saved,               \* the state the handler wrote to the database
    executed,            \* history: the last ValidateAfter the handler
                         \* executed for a trial and no Create followed
    replaced,            \* history: trials whose incomplete ValidateAfter
                         \* the handler overwrote with a new one
    savedProgress,       \* the progress the handler wrote to the database,
                         \* in tenths
    deleted,             \* the handler deleted the experiment's snapshots
    log,                 \* what a recorded processOperations did, in order
    spawned,             \* the trials the handler's Create operations
                         \* spawned, each with e.State at that moment
    snapshots            \* the trial-state maps the handler persisted with
                         \* snapshotAndSave, in order

evars == <<State, TrialSearcherState, children, actor, lastMsg, resp, told,
           call, updatedTrials, ran, stateTold, saved, executed, replaced,
           savedProgress, deleted, log, spawned,
           snapshots>>

VARIABLES
    Config,              \* e.Config.Resources(): priority, weight and pool
    dbConfig,            \* the configuration the database holds
    expRestored          \* e.restored

cvars == <<Config, dbConfig>>

vars == <<qvars, evars, cvars, expRestored>>

(* ----------------------------- slices ---------------------------------- *)

\* The pointers a slice holds.
SlicePtrs(arr, s) == [i \in 1..s.len |-> arr[s.off + i]]

\* cap(s)
SliceCap(arr, s) == Len(arr) - s.off

\* The events a slice of pointers denotes.
Deref(ptrs) == [i \in 1..Len(ptrs) |-> objs[ptrs[i]]]

\* q.events as pointers, and as the events they point to.
QueuePtrs == SlicePtrs(qArr, qEvents)

Events == Deref(QueuePtrs)

\* The array behind the client's slice.
ViewArr == IF shared THEN qArr ELSE vArr

ViewPtrs == SlicePtrs(ViewArr, view)

Max(a, b) == IF a >= b THEN a ELSE b

\* The capacity append gives the new array when the old one is full: the gc
\* runtime doubles a small slice.
GrowCaps(oldcap, need) == {Max(need, 2 * oldcap)}

Zeros(n) == [i \in 1..n |-> 0]

(* ------------------------- SearcherEventQueue -------------------------- *)

Nil == "nil"

NotFound == "event not found"

\* The index of the event of the queue whose id is the int x, 0 if none.
HeldIndex(x) ==
    IF \E i \in 1..Len(Events) : FromInt32(Events[i].Id) = x
    THEN CHOOSE i \in 1..Len(Events) :
            /\ FromInt32(Events[i].Id) = x
            /\ \A j \in 1..(i - 1) : FromInt32(Events[j].Id) # x
    ELSE 0

Seen(eventID) == [hi |-> eventID.hi, held |-> HeldIndex(eventID)]

NoArg == [hi |-> 0, held |-> 0]

CustomSearch == "custom"

\* The customSearchState a customSearch holds, as a value.
SearchState(evs, count, prog) ==
    [SearchMethodType |-> CustomSearch,
     SearcherEventQueue |-> [events |-> evs, EventCount |-> count],
     CustomSearchProgress |-> prog]

\* newCustomSearch, with the queue of newSearcherEventQueue.
NewCustomSearchState == SearchState(<<>>, 0, 0)

\* What the last step did: the operation, RemoveUpTo's argument, the error
\* returned and the state Restore produced.
Record(op, a, r, st) ==
    /\ lastOp' = op
    /\ arg' = a
    /\ ret' = r
    /\ restored' = st
    /\ UNCHANGED <<evars, cvars, expRestored>>

\* The last step called no hook.
NoHook == [name |-> "none", args |-> <<>>, ops |-> <<>>]

\* What a step did that called no hook and pushed no progress.
Did(op, a, r, st) ==
    /\ Record(op, a, r, st)
    /\ hook' = NoHook
    /\ UNCHANGED pushed

\* newSearcherEventQueue
InitQueue ==
    /\ objs = <<>>
    /\ qArr = <<>>
    /\ qEvents = NoSlice
    /\ EventCount = 0

EnqueueIdFromLen(count, n) == n + 1

\* The id Enqueue gives the event: q.EventCount after q.EventCount++
\* (n is len(q.events)).
EnqueueId(count, n) == Int32Inc(count)

PrependEvent(p) ==
    /\ qArr' = <<p>> \o QueuePtrs
    /\ qEvents' = [off |-> 0, len |-> qEvents.len + 1]
    /\ shared' = FALSE
    /\ vArr' = IF hasView /\ shared THEN qArr ELSE vArr

\* q.events = append(q.events, event) for the pointer p.
AppendEvent(p) ==
    IF qEvents.len < SliceCap(qArr, qEvents)
    THEN \* room in the array: written in place, behind every alias
         /\ qArr' = [qArr EXCEPT ![qEvents.off + qEvents.len + 1] = p]
         /\ qEvents' = [qEvents EXCEPT !.len = @ + 1]
         /\ UNCHANGED <<shared, vArr>>
    ELSE \* a new array: the client's slice keeps the old one
         /\ \E c \in GrowCaps(SliceCap(qArr, qEvents), qEvents.len + 1) :
               qArr' = QueuePtrs \o <<p>> \o Zeros(c - (qEvents.len + 1))
         /\ qEvents' = [off |-> 0, len |-> qEvents.len + 1]
         /\ shared' = FALSE
         /\ vArr' = IF hasView /\ shared THEN qArr ELSE vArr

\* The body of Enqueue(event), event being a new object.
Enqueued(ev) ==
    /\ EventCount < MaxEnqueues
    /\ LET id == EnqueueId(EventCount, qEvents.len)
           p == Len(objs) + 1
       IN /\ EventCount' = Int32Inc(EventCount)
          /\ objs' = Append(objs, [ev EXCEPT !.Id = id])
          /\ AppendEvent(p)
          /\ assigned' = Append(assigned, id)
          /\ enqueued' = Append(enqueued, [ev EXCEPT !.Id = id])
    /\ UNCHANGED <<progress, hasView, view, writes, acked>>

\* Enqueue(event), called by the owner of the queue.
Enqueue(ev) ==
    /\ Enqueued(ev)
    /\ Did("Enqueue", NoArg, Nil, NewCustomSearchState)

GetEventsDraining ==
    /\ hasView' = TRUE
    /\ shared' = TRUE
    /\ vArr' = <<>>
    /\ view' = qEvents
    /\ qEvents' = [off |-> qEvents.off + qEvents.len, len |-> 0]
    /\ Did("GetEvents", NoArg, Nil, NewCustomSearchState)
    /\ UNCHANGED <<objs, qArr, EventCount, progress, writes, assigned,
                   enqueued, acked>>

\* GetEvents(): the slice q.events itself.
GetEvents ==
    /\ hasView' = TRUE
    /\ shared' = TRUE
    /\ vArr' = <<>>
    /\ view' = qEvents
    /\ Did("GetEvents", NoArg, Nil, NewCustomSearchState)
    /\ UNCHANGED <<objs, qArr, qEvents, EventCount, progress, writes,
                   assigned, enqueued, acked>>

\* SetEvents(events), the caller passing a nil slice or the slice it got
\* from GetEvents.
SetEvents(which) ==
    /\ which = "view" => hasView
    /\ IF which = "nil"
       THEN /\ qArr' = <<>>
            /\ qEvents' = NoSlice
            /\ shared' = FALSE
            /\ vArr' = IF hasView /\ shared THEN qArr ELSE vArr
       ELSE /\ qArr' = ViewArr
            /\ qEvents' = view
            /\ shared' = TRUE
            /\ vArr' = <<>>
    /\ Did("SetEvents", NoArg, Nil, NewCustomSearchState)
    /\ UNCHANGED <<objs, EventCount, progress, hasView, view, writes,
                   assigned, enqueued, acked>>

\* The loop of RemoveUpTo: the first index whose event has the id, 0 if none.
MatchIndex(evs, id32) ==
    IF \E i \in 1..Len(evs) : evs[i].Id = id32
    THEN CHOOSE i \in 1..Len(evs) :
            /\ evs[i].Id = id32
            /\ \A j \in 1..(i - 1) : evs[j].Id # id32
    ELSE 0

DropCountKeepMatch(i) == i - 1

\* Events dropped from the head when the match is the i-th event:
\* q.events[i+1:] with Go's 0-based i.
DropCount(i) == i

\* RemoveUpTo(eventID)
RemoveUpTo(eventID) ==
    LET i == MatchIndex(Events, ToInt32(eventID))
    IN /\ IF i # 0
          THEN /\ qEvents' = [off |-> qEvents.off + DropCount(i),
                              len |-> qEvents.len - DropCount(i)]
               /\ Did("RemoveUpTo", Seen(eventID), Nil, NewCustomSearchState)
               /\ acked' = Events[i].Id
          ELSE /\ Did("RemoveUpTo", Seen(eventID), NotFound,
                      NewCustomSearchState)
               /\ UNCHANGED <<qEvents, acked>>
       /\ UNCHANGED <<objs, qArr, EventCount, progress, hasView, shared, vArr,
                      view, writes, assigned, enqueued>>

(* ------------------- the holder of a GetEvents result ------------------ *)

\* s[i] = s[j] on the slice s that GetEvents returned.
ClientWrite(i, j) ==
    /\ hasView /\ writes < MaxClientWrites
    /\ i \in 1..view.len /\ j \in 1..view.len
    /\ ViewPtrs[i] # ViewPtrs[j]
    /\ IF shared
       THEN /\ qArr' = [qArr EXCEPT ![view.off + i] = ViewPtrs[j]]
            /\ UNCHANGED vArr
       ELSE /\ vArr' = [vArr EXCEPT ![view.off + i] = ViewPtrs[j]]
            /\ UNCHANGED qArr
    /\ writes' = writes + 1
    /\ Did("ClientWrite", NoArg, Nil, NewCustomSearchState)
    /\ UNCHANGED <<objs, qEvents, EventCount, progress, hasView, shared, view,
                   assigned, enqueued, acked>>

\* s[i].Id = id on the slice s that GetEvents returned.
ClientSetId(i, id) ==
    /\ hasView /\ writes < MaxClientWrites
    /\ i \in 1..view.len
    /\ objs[ViewPtrs[i]].Id # id
    /\ objs' = [objs EXCEPT ![ViewPtrs[i]].Id = id]
    /\ writes' = writes + 1
    /\ Did("ClientSetId", NoArg, Nil, NewCustomSearchState)
    /\ UNCHANGED <<qArr, qEvents, EventCount, progress, hasView, shared, vArr,
                   view, assigned, enqueued, acked>>

(* ----------------------------- customSearch ---------------------------- *)

CurrentSearchState == SearchState(Events, EventCount, progress)

MarshalQueueWithEvents(q) == q

\* json.Marshal of a SearcherEventQueue: its exported fields.
MarshalQueue(q) == [EventCount |-> q.EventCount]

\* Snapshot(): json.Marshal(s.customSearchState)
Snapshot(s) ==
    [search_method_type |-> s.SearchMethodType,
     SearcherEventQueue |-> MarshalQueue(s.SearcherEventQueue),
     CustomSearchProgress |-> s.CustomSearchProgress]

\* json.Unmarshal into the queue a customSearch already points to: the
\* fields the document has are set, the others keep their values.
UnmarshalQueue(q, doc) ==
    [events |-> IF "events" \in DOMAIN doc THEN doc.events ELSE q.events,
     EventCount |-> doc.EventCount]

\* Restore(state) on a customSearch whose state is s.
Restore(s, state) ==
    IF state = <<>>
    THEN s
    ELSE [SearchMethodType |-> state.search_method_type,
          SearcherEventQueue |->
              UnmarshalQueue(s.SearcherEventQueue, state.SearcherEventQueue),
          CustomSearchProgress |-> state.CustomSearchProgress]

\* What a user of a customSearch observes of it.
Observable(s) ==
    [events |-> s.SearcherEventQueue.events,
     EventCount |-> s.SearcherEventQueue.EventCount,
     progress |-> s.CustomSearchProgress]

\* setCustomSearcherProgress(progress)
SetCustomSearcherProgress(p) ==
    /\ progress # p
    /\ progress' = p
    /\ pushed' = <<p>>
    /\ hook' = NoHook
    /\ Record("setCustomSearcherProgress", NoArg, Nil, NewCustomSearchState)
    /\ UNCHANGED <<objs, qArr, qEvents, EventCount, hasView, shared, vArr,
                   view, writes, assigned, enqueued, acked>>

\* Snapshot() of the customSearch, then Restore of it on a new customSearch.
SnapshotRestore ==
    /\ Did("Restore", NoArg, Nil,
           Restore(NewCustomSearchState, Snapshot(CurrentSearchState)))
    /\ UNCHANGED <<objs, qArr, qEvents, EventCount, progress, hasView, shared,
                   vArr, view, writes, assigned, enqueued, acked>>

\* progress(trialProgress, trialsClosed) of the customSearch in state s.
customSearch_progress(s, trialProgress, trialsClosed) ==
    s.CustomSearchProgress

\* The states of a customSearch that was in use before a Restore.
PriorStates ==
    {NewCustomSearchState,
     SearchState(<<[NewEvent("TrialCreated", "R1") EXCEPT !.Id = 1]>>, 1, 5)}

\* Restore of the customSearch's snapshot on a customSearch in state s.
RestoreOver(s) ==
    /\ Did("RestoreOver", NoArg, Nil,
           Restore(s, Snapshot(CurrentSearchState)))
    /\ UNCHANGED <<objs, qArr, qEvents, EventCount, progress, hasView, shared,
                   vArr, view, writes, assigned, enqueued, acked>>

QInit ==
    /\ InitQueue
    /\ progress = 0
    /\ hasView = FALSE
    /\ shared = FALSE
    /\ vArr = <<>>
    /\ view = NoSlice
    /\ restored = NewCustomSearchState
    /\ lastOp = "new"
    /\ arg = NoArg
    /\ ret = Nil
    /\ writes = 0
    /\ assigned = <<>>
    /\ enqueued = <<>>
    /\ acked = 0
    /\ hook = NoHook
    /\ pushed = <<>>

(* ------------------------------ experiment ----------------------------- *)

\* The request ids messages carry; the Searcher's operations name R1, and
\* R2 is the request id of a trial only in a restored experiment.
RequestIDs == {"R1", "R2"}

TrialIDs == {"R1"}

\* The zero value of model.RequestID.
ZeroRequestID == "R0"

\* The lengths of the ValidateAfter operations: two, to tell them apart.
Lengths == {1, 2}

ActiveState == "ACTIVE"

PausedState == "PAUSED"

StoppingCanceledState == "STOPPING_CANCELED"

StoppingCompletedState == "STOPPING_COMPLETED"

StoppingErrorState == "STOPPING_ERROR"

CanceledState == "CANCELED"

CompletedState == "COMPLETED"

ErrorState == "ERROR"

\* model.StoppingStates
StoppingStates ==
    {StoppingCanceledState, StoppingCompletedState, StoppingErrorState}

\* model.TerminalStates
TerminalStates == {CanceledState, CompletedState, ErrorState}

\* model.StoppingToTerminalStates
StoppingToTerminalStates ==
    [s \in StoppingStates |->
        CASE s = StoppingCanceledState -> CanceledState
          [] s = StoppingCompletedState -> CompletedState
          [] s = StoppingErrorState -> ErrorState]

\* model.ExperimentTransitions: the states each state may move to.
ExperimentTransitions(s) ==
    CASE s = ActiveState -> {PausedState} \cup StoppingStates
      [] s = PausedState -> {ActiveState} \cup StoppingStates
      [] s \in StoppingStates -> {StoppingToTerminalStates[s]}
      [] OTHER -> {}

\* Experiment.Transition(to) from the state from:
\* the new state, wasPatched, and whether it is an error.
Transition(from, to) ==
    IF from = to
    THEN [State |-> from, wasPatched |-> FALSE, err |-> FALSE]
    ELSE IF to \notin ExperimentTransitions(from)
         THEN [State |-> from, wasPatched |-> FALSE, err |-> TRUE]
         ELSE [State |-> to, wasPatched |-> TRUE, err |-> FALSE]

\* searcher.Create; Checkpoint is nil ("none") or names a trial whose
\* checkpoint the database has not ("missing").
CreateOp(r, c) == [type |-> "Create", RequestID |-> r, Checkpoint |-> c]

\* searcher.ValidateAfter
ValidateAfterOp(r, l) ==
    [type |-> "ValidateAfter", RequestID |-> r, Length |-> l]

\* searcher.Close
CloseOp(r) == [type |-> "Close", RequestID |-> r]

\* searcher.Shutdown
ShutdownOp(f) == [type |-> "Shutdown", Failure |-> f]

\* A searcher.Operation that is none of the four.
OtherOp == [type |-> "Other"]

ZeroCreate == CreateOp(ZeroRequestID, "none")

ZeroOp == ValidateAfterOp(ZeroRequestID, 0)

\* The zero value of trialSearcherState.
ZeroTrialState ==
    [Create |-> ZeroCreate, Op |-> ZeroOp, Complete |-> FALSE,
     Closed |-> FALSE]

\* The operations a Searcher call returns.
Operations ==
    {CreateOp(r, c) : r \in TrialIDs, c \in {"none", "missing"}}
      \cup {ValidateAfterOp(r, l) : r \in TrialIDs, l \in Lengths}
      \cup {CloseOp(r) : r \in TrialIDs}
      \cup {ShutdownOp(f) : f \in BOOLEAN}

Batches == UNION {[1..n -> Operations] : n \in 0..MaxOps}

\* What a call of the Searcher returns: operations, or an error.
SearcherResults ==
    {[ops |-> b, err |-> FALSE] : b \in Batches}
      \cup {[ops |-> <<>>, err |-> TRUE]}

\* The values of the interface searcher.Operation.
AnyOperations == Operations \cup {OtherOp}

AnyBatches == UNION {[1..n -> AnyOperations] : n \in 0..MaxOps}

\* The arguments processOperations can be called with.
AnyResults ==
    {[ops |-> b, err |-> FALSE] : b \in AnyBatches}
      \cup {[ops |-> b, err |-> TRUE] :
               b \in {<<>>} \cup {<<CreateOp(r, "none")>> : r \in TrialIDs}}

NoCall == <<>>

\* m[r] of a Go map: the zero value when r is no key.
Lookup(m, r) == IF r \in DOMAIN m THEN m[r] ELSE ZeroTrialState

\* m[r] = v
Put(m, r, v) == [x \in DOMAIN m \cup {r} |-> IF x = r THEN v ELSE m[x]]

\* No state was written to the database.
NotSaved == "none"

\* No progress was written to the database.
NoProgress == -1

\* The handler wrote no progress, deleted no snapshot and recorded nothing.
Quiet ==
    /\ savedProgress' = NoProgress
    /\ deleted' = FALSE
    /\ log' = <<>>

\* ctx.Tell(ctx.Child(r), state)
Notice(r, state) == [trial |-> r, state |-> state]

\* The entries of the record of a processOperations: an operation was
\* applied, the trials of updatedTrials were told, the snapshot was saved.
Applied(op) == <<"op", op>>

Told(notices) == <<"tell", notices>>

Snapshotted(tss) == <<"save", tss>>

\* ctx.ActorOf(op.RequestID, newTrial(...)) while e.State is st.
Spawn(r, st) == [trial |-> r, State |-> st]

\* The part of the experiment a handler works on.
Exp(st, tss, ch) ==
    [State |-> st, tss |-> tss, children |-> ch, stop |-> FALSE, told |-> {},
     updatedTrials |-> {}, ran |-> <<>>, stateTold |-> {}, saved |-> NotSaved,
     executed |-> {}, replaced |-> {}, panicked |-> FALSE,
     log |-> <<>>, spawned |-> {}]

canTerminateNever(e) == FALSE

\* canTerminate
canTerminate(e) == e.State \in StoppingStates /\ e.children = {}

updateStateTellsBeforeCheck(e, to) ==
    LET t == Transition(e.State, to)
        moved == [e EXCEPT !.State = t.State,
                           !.stateTold = @ \cup e.children,
                           !.saved = t.State]
    IN IF t.err
       THEN [e |-> [e EXCEPT !.stateTold = @ \cup e.children], ok |-> FALSE]
       ELSE IF ~t.wasPatched
            THEN [e |-> e, ok |-> TRUE]
            ELSE [e |-> IF canTerminate(moved)
                        THEN [moved EXCEPT !.stop = TRUE]
                        ELSE moved,
                  ok |-> TRUE]

updateStateUnchecked(e, to) ==
    LET moved == [e EXCEPT !.State = to,
                           !.stateTold = @ \cup e.children,
                           !.saved = to]
    IN IF e.State = to
       THEN [e |-> e, ok |-> TRUE]
       ELSE [e |-> IF canTerminate(moved)
                   THEN [moved EXCEPT !.stop = TRUE]
                   ELSE moved,
             ok |-> TRUE]

\* updateState(state): the experiment afterwards (the returned bool is ok).
updateState(e, to) ==
    LET t == Transition(e.State, to)
        moved == [e EXCEPT !.State = t.State,
                           !.stateTold = @ \cup e.children,
                           !.saved = t.State]
    IN IF t.err
       THEN [e |-> e, ok |-> FALSE]
       ELSE IF ~t.wasPatched
            THEN [e |-> e, ok |-> TRUE]
            ELSE [e |-> IF canTerminate(moved)
                        THEN [moved EXCEPT !.stop = TRUE]
                        ELSE moved,
                  ok |-> TRUE]

\* checkpointForCreate(op): whether it returns an error.
checkpointForCreateFails(op) == op.Checkpoint = "missing"

RecordCreateIncomplete(op) == [ZeroTrialState EXCEPT !.Create = op]

\* The case searcher.Create of processOperations: the trial's new state.
RecordCreate(op) == [ZeroTrialState EXCEPT !.Create = op, !.Complete = TRUE]

ValidateAfterUnlessOutstanding(state, op) ==
    IF state.Op # ZeroOp /\ ~state.Complete
    THEN state
    ELSE [state EXCEPT !.Op = op, !.Complete = FALSE]

\* The case searcher.ValidateAfter of processOperations on the trial's state.
RecordValidateAfter(state, op) ==
    [state EXCEPT !.Op = op, !.Complete = FALSE]

\* The case searcher.Close of processOperations on the trial's state.
RecordClose(state) == [state EXCEPT !.Closed = TRUE]

ShutdownStateIgnoringFailure(op) == StoppingCompletedState

\* The case searcher.Shutdown of processOperations: the state asked for.
ShutdownState(op) ==
    IF op.Failure THEN StoppingErrorState ELSE StoppingCompletedState

\* The default case of processOperations: panic.
Unexpected(e) == [e EXCEPT !.panicked = TRUE]

\* The loop of processOperations from the i-th operation on, and the
\* notifications after it. A failed Create returns at once and an
\* unexpected operation panics, both without the notifications.
RECURSIVE RunOps(_, _, _)
RunOps(e, ops, i) ==
    IF i > Len(ops)
    THEN [e EXCEPT !.told = @ \cup {Notice(r, e.tss[r]) :
                                       r \in e.updatedTrials},
                   !.log = Append(@, Told({Notice(r, e.tss[r]) :
                                             r \in e.updatedTrials}))]
    ELSE LET op == ops[i]
             r == op.RequestID
             old == Lookup(e.tss, r)
         IN CASE op.type = "Create" ->
                   IF checkpointForCreateFails(op)
                   THEN updateState(e, StoppingErrorState).e
                   ELSE RunOps(
                          [e EXCEPT
                             !.tss = Put(@, r, RecordCreate(op)),
                             !.children = @ \cup {r},
                             !.spawned = @ \cup {Spawn(r, e.State)},
                             !.ran = Append(@, op),
                             !.log = Append(@, Applied(op)),
                             !.executed = {v \in @ : v.RequestID # r}],
                          ops, i + 1)
              [] op.type = "ValidateAfter" ->
                   RunOps(
                     [e EXCEPT
                        !.tss = Put(@, r, RecordValidateAfter(old, op)),
                        !.updatedTrials = @ \cup {r},
                        !.ran = Append(@, op),
                        !.log = Append(@, Applied(op)),
                        !.executed =
                            {v \in @ : v.RequestID # r} \cup {op},
                        !.replaced =
                            IF old.Op # ZeroOp /\ ~old.Complete
                            THEN @ \cup {r} ELSE @],
                     ops, i + 1)
              [] op.type = "Close" ->
                   RunOps([e EXCEPT !.tss = Put(@, r, RecordClose(old)),
                                    !.updatedTrials = @ \cup {r},
                                    !.ran = Append(@, op),
                                    !.log = Append(@, Applied(op))],
                          ops, i + 1)
              [] op.type = "Shutdown" ->
                   RunOps(
                     [updateState(e, ShutdownState(op)).e
                        EXCEPT !.ran = Append(@, op),
                               !.log = Append(@, Applied(op))],
                     ops, i + 1)
              [] OTHER -> Unexpected(e)

snapshotAndSaveBeforeNotices(e) ==
    [e EXCEPT !.log = <<Snapshotted(e.tss)>> \o @]

\* e.snapshotAndSave(ctx): the trial-state map is saved with the snapshot
\* of the Searcher.
snapshotAndSave(e) == [e EXCEPT !.log = Append(@, Snapshotted(e.tss))]

processOperationsDespiteError(e, res) ==
    IF e.State \in StoppingStates
    THEN e
    ELSE snapshotAndSave(RunOps(updateState(e, StoppingErrorState).e,
                                res.ops, 1))

\* The trial-state maps of the snapshots that the record log says were
\* saved.
RECURSIVE Saves(_)
Saves(record) ==
    IF record = <<>>
    THEN <<>>
    ELSE IF Head(record)[1] = "save"
         THEN <<Head(record)[2]>> \o Saves(Tail(record))
         ELSE Saves(Tail(record))

\* processOperations(ctx, ops, err); the deferred snapshotAndSave runs when
\* the loop is left, however it is left.
processOperations(e, res) ==
    IF e.State \in StoppingStates
    THEN e
    ELSE IF res.err
         THEN updateState(e, StoppingErrorState).e
         ELSE snapshotAndSave(RunOps(e, res.ops, 1))

\* The experiment as the handler finds it.
Current == Exp(State, TrialSearcherState, children)

\* The handler is done: e is the experiment it leaves; a handler that
\* panicked has failed the actor.
Handled(e, msg, answer, c) ==
    /\ State' = e.State
    /\ TrialSearcherState' = e.tss
    /\ children' = e.children
    /\ actor' = IF e.panicked THEN "failed"
                ELSE IF e.stop THEN "stopping" ELSE actor
    /\ told' = e.told
    /\ updatedTrials' = e.updatedTrials
    /\ ran' = <<>>
    /\ stateTold' = e.stateTold
    /\ saved' = e.saved
    /\ executed' = e.executed
    /\ replaced' = e.replaced
    /\ spawned' = e.spawned
    /\ snapshots' = Saves(e.log)
    /\ lastMsg' = msg
    /\ resp' = answer
    /\ call' = c
    /\ UNCHANGED <<qvars, cvars, expRestored>>

\* A handler that writes no progress and deletes no snapshot is done.
Done(e, msg, answer, c) == Handled(e, msg, answer, c) /\ Quiet

\* The results of a Searcher call that the handler can tell apart:
\* processOperations drops them in a stopping state.
Returned == IF State \in StoppingStates
            THEN {[ops |-> <<>>, err |-> FALSE]}
            ELSE SearcherResults

\* What ctx.Respond sends: a status and, for a failed precondition, the
\* experiment state it names.
Response(code, state) == [code |-> code, state |-> state]

NoResponse == Response("none", "-")

ValidationError == Response("validation error", "-")

OK == Response("ok", "-")

FailedPrecondition(state) == Response("failed precondition", state)

\* The orders in which a range loop visits the keys of a map.
Orders(keys) ==
    {o \in [1..Cardinality(keys) -> keys] :
        \A i, j \in 1..Cardinality(keys) : o[i] = o[j] => i = j}

\* restoreTrial(ctx, checkpoint, state): the trial of the entry is a child
\* again.
restoreTrial(e, state) ==
    [e EXCEPT !.children = @ \cup {state.Create.RequestID}]

\* restoreTrials from the i-th key of the order the loop visits.
RECURSIVE restoreTrials(_, _, _)
restoreTrials(e, order, i) ==
    IF i > Len(order)
    THEN e
    ELSE LET state == e.tss[order[i]]
         IN IF checkpointForCreateFails(state.Create)
            THEN updateState(e, StoppingErrorState).e
            ELSE restoreTrials(restoreTrial(e, state), order, i + 1)

TakesRestorePathNever(flag) == FALSE

\* if e.restored
TakesRestorePath(flag) == flag

\* PreStart is done: e is the experiment it leaves, status says whether the
\* actor runs, was told to stop or failed, c is the Searcher call made.
Started(e, status, c) ==
    /\ State' = e.State
    /\ TrialSearcherState' = e.tss
    /\ children' = e.children
    /\ actor' = status
    /\ told' = e.told
    /\ updatedTrials' = e.updatedTrials
    /\ ran' = <<>>
    /\ stateTold' = e.stateTold
    /\ saved' = e.saved
    /\ executed' = e.executed
    /\ replaced' = e.replaced
    /\ spawned' = e.spawned
    /\ snapshots' = Saves(e.log)
    /\ lastMsg' = [type |-> "PreStart"]
    /\ resp' = NoResponse
    /\ call' = c
    /\ Quiet
    /\ UNCHANGED <<qvars, cvars, expRestored>>

\* The actor after a PreStart that returns no error.
Status(e) == IF e.panicked THEN "failed"
             ELSE IF e.stop THEN "stopping" ELSE "running"

\* case actor.PreStart: it fails when setWeight, setPriority or JobByID
\* returns an error; a restored experiment replays its trials, another one
\* asks the Searcher for the initial operations.
PreStart ==
    /\ actor = "new"
    /\ \/ Started(Current, "failed", NoCall)
       \/ IF TakesRestorePath(expRestored)
          THEN \E order \in Orders(DOMAIN TrialSearcherState) :
                 LET e == restoreTrials(Current, order, 1)
                 IN Started(e, Status(e), NoCall)
          ELSE \E res \in SearcherResults :
                 IF res.err
                 THEN Started(Current, "failed", <<"InitialOperations">>)
                 ELSE LET e == processOperations(Current, res)
                      IN Started(e, Status(e), <<"InitialOperations">>)

\* case trialCreated
TrialCreated(r) ==
    /\ actor = "running"
    /\ r \in children
    /\ \E res \in Returned :
         Done(processOperations(Current, res),
              [type |-> "trialCreated", requestID |-> r],
              NoResponse, <<"TrialCreated", r>>)

\* The key of the trial-state map that case trialCompleteOperation reads,
\* writes and notifies.
TrialCompleteOperationTrial(msg) == msg.op.RequestID

\* case trialCompleteOperation
TrialCompleteOperation(msg) ==
    /\ actor = "running"
    /\ LET key == TrialCompleteOperationTrial(msg)
           ok == key \in DOMAIN TrialSearcherState
           state == Lookup(TrialSearcherState, key)
       IN IF ~ok \/ msg.op # state.Op \/ state.Complete
          THEN Done(Current, msg, ValidationError, NoCall)
          ELSE \E res \in Returned :
                 Done(processOperations(
                        [Current EXCEPT
                           !.tss = Put(@, key, [state EXCEPT
                                                  !.Complete = TRUE]),
                           !.told = {Notice(key, [state EXCEPT
                                                     !.Complete = TRUE])}],
                        res),
                      msg, NoResponse,
                      <<"ValidationCompleted", msg.requestID, msg.op>>)

EarlyExitClosesOnly(state) == [state EXCEPT !.Closed = TRUE]

EarlyExitCompletesOnly(state) == [state EXCEPT !.Complete = TRUE]

\* The trial's state after case trialReportEarlyExit.
EarlyExitState(state) == [state EXCEPT !.Complete = TRUE, !.Closed = TRUE]

\* case trialReportEarlyExit
TrialReportEarlyExit(r) ==
    /\ actor = "running"
    /\ LET msg == [type |-> "trialReportEarlyExit", requestID |-> r]
       IN IF r \notin DOMAIN TrialSearcherState
          THEN Done(Current, msg, ValidationError, NoCall)
          ELSE \E res \in Returned :
                 Done(processOperations(
                        [Current EXCEPT
                           !.tss = Put(@, r,
                                       EarlyExitState(TrialSearcherState[r])),
                           !.told =
                               {Notice(r,
                                  EarlyExitState(TrialSearcherState[r]))}],
                        res),
                      msg, NoResponse, <<"TrialExitedEarly", r>>)

\* The progress the Searcher computes, in tenths.
ProgressValues == {5, 10}

TrialReportProgressDeciding(r) ==
    /\ actor = "running"
    /\ r \in children
    /\ \E p \in ProgressValues, res \in Returned :
         /\ Handled(processOperations(Current, res),
                    [type |-> "trialReportProgress", requestID |-> r],
                    NoResponse, <<"SetTrialProgress", r>>)
         /\ savedProgress' = p
         /\ deleted' = FALSE
         /\ log' = <<>>

\* case trialReportProgress, sent by the trial r: the Searcher is told the
\* trial's progress and asked for the experiment's, which is saved.
TrialReportProgress(r) ==
    /\ actor = "running"
    /\ r \in children
    /\ \E p \in ProgressValues :
         /\ Handled(Current,
                    [type |-> "trialReportProgress", requestID |-> r],
                    NoResponse, <<"SetTrialProgress", r>>)
         /\ savedProgress' = p
         /\ deleted' = FALSE
         /\ log' = <<>>

\* e.trialClosed(ctx, requestID)
trialClosed(e0, r, msg) ==
    \E res \in Returned :
       LET e == processOperations(e0, res)
       IN Done(IF canTerminate(e) THEN [e EXCEPT !.stop = TRUE] ELSE e,
               msg, NoResponse, <<"TrialClosed", r>>)

\* case actor.ChildFailed, case actor.ChildStopped: the child is gone.
ChildStopped(r) ==
    /\ actor = "running"
    /\ r \in children
    /\ trialClosed([Current EXCEPT !.children = @ \ {r}], r,
                   [type |-> "ChildStopped", requestID |-> r])

\* case trialClosed: the replay of a close.
TrialClosed(r) ==
    /\ actor = "running"
    /\ trialClosed(Current, r, [type |-> "trialClosed", requestID |-> r])

AlreadyStoppingNever(state) == FALSE

\* The first case of a Cancel or Kill request: nothing is left to stop.
AlreadyStopping(state) == state \in StoppingStates \cup TerminalStates

\* The experiment's state after a request to move to the state to
\* (Activate, Pause, Cancel and Kill requests).
StateRequest(name, to) ==
    /\ actor = "running"
    /\ IF to = StoppingCanceledState /\ AlreadyStopping(State)
       THEN Done(Current, [type |-> name], OK, NoCall)
       ELSE LET u == updateState(Current, to)
            IN Done(u.e, [type |-> name],
                    IF u.ok THEN OK ELSE FailedPrecondition(u.e.State),
                    NoCall)

\* case *apiv1.ActivateExperimentRequest
ActivateExperiment == StateRequest("ActivateExperimentRequest", ActiveState)

\* case *apiv1.PauseExperimentRequest
PauseExperiment == StateRequest("PauseExperimentRequest", PausedState)

\* case *apiv1.CancelExperimentRequest
CancelExperiment ==
    StateRequest("CancelExperimentRequest", StoppingCanceledState)

\* case *apiv1.KillExperimentRequest
KillExperiment == StateRequest("KillExperimentRequest", StoppingCanceledState)

\* processOperations(ctx, ops, err) as PreStart and case trialCreated call
\* it, with the operations it executes recorded.
Batch(res) ==
    /\ actor \in {"new", "running"}
    /\ LET e == processOperations(Current, res)
       IN /\ State' = e.State
          /\ TrialSearcherState' = e.tss
          /\ children' = e.children
          /\ actor' = Status(e)
          /\ told' = e.told
          /\ updatedTrials' = e.updatedTrials
          /\ ran' = e.ran
          /\ stateTold' = e.stateTold
          /\ saved' = e.saved
          /\ executed' = e.executed
          /\ replaced' = e.replaced
          /\ spawned' = e.spawned
          /\ snapshots' = Saves(e.log)
          /\ lastMsg' = [type |-> "processOperations", ops |-> res.ops,
                         err |-> res.err]
          /\ resp' = NoResponse
          /\ call' = NoCall
          /\ savedProgress' = NoProgress
          /\ deleted' = FALSE
          /\ log' = e.log
          /\ UNCHANGED <<qvars, cvars, expRestored>>

\* The states a state message asks for: the states short of a terminal one.
RequestedStates == {ActiveState, PausedState} \cup StoppingStates

\* case model.StateWithReason, case model.State
PatchState(to) ==
    /\ actor = "running"
    /\ Done(updateState(Current, to).e, [type |-> "State", State |-> to],
            NoResponse, NoCall)

SnapshotsDeletedAlways(saveOk) == TRUE

\* Whether PostStop gets to e.db.DeleteSnapshotsForExperiment: it returns
\* before when e.db.SaveExperimentState fails.
SnapshotsDeleted(saveOk) == saveOk

\* case actor.PostStop, once the children of the stopping actor are gone;
\* saveOk says whether e.db.SaveExperimentState succeeds.
PostStop ==
    /\ actor = "stopping"
    /\ \E saveOk \in BOOLEAN :
       LET t == Transition(State, StoppingToTerminalStates[State])
       IN /\ State' = t.State
          /\ saved' = IF saveOk THEN t.State ELSE NotSaved
          /\ savedProgress' =
               IF State \in {CompletedState, StoppingCompletedState}
               THEN 10 ELSE NoProgress
          /\ deleted' = SnapshotsDeleted(saveOk)
          /\ log' = <<>>
          /\ actor' = "stopped"
          /\ children' = {}
          /\ lastMsg' = [type |-> "PostStop"]
          /\ resp' = NoResponse
          /\ told' = {}
          /\ call' = NoCall
          /\ updatedTrials' = {}
          /\ ran' = <<>>
          /\ stateTold' = {}
          /\ executed' = {}
          /\ replaced' = {}
          /\ spawned' = {}
          /\ snapshots' = <<>>
    /\ UNCHANGED <<TrialSearcherState, qvars, cvars, expRestored>>

\* The messages a trialCompleteOperation can be.
CompleteMessages ==
    {[type |-> "trialCompleteOperation", requestID |-> r, op |-> o] :
        r \in RequestIDs,
        o \in {ValidateAfterOp(q, l) : q \in RequestIDs, l \in Lengths}}

\* newExperiment
EInit ==
    /\ State \in {ActiveState, PausedState}
    /\ TrialSearcherState = <<>>
    /\ children = {}
    /\ actor = "new"
    /\ lastMsg = [type |-> "none"]
    /\ resp = NoResponse
    /\ told = {}
    /\ call = NoCall
    /\ updatedTrials = {}
    /\ ran = <<>>
    /\ stateTold = {}
    /\ saved = NotSaved
    /\ executed = {}
    /\ replaced = {}
    /\ spawned = {}
    /\ snapshots = <<>>
    /\ savedProgress = NoProgress
    /\ deleted = FALSE
    /\ log = <<>>

\* A nil *int.
Unset == <<>>

\* The resources of the configuration the experiment is created with, which
\* the database holds.
CInit ==
    /\ Config = [Priority |-> Unset, Weight |-> 1, ResourcePool |-> "default"]
    /\ dbConfig = Config

Init == QInit /\ EInit /\ CInit /\ expRestored = FALSE

\* The queue and the search method under an experiment that stays as it
\* was created.
QueueInit == Init /\ State = ActiveState

\* The experiment actor under its messages.
ExpNext ==
    \/ PreStart
    \/ \E r \in RequestIDs : TrialCreated(r)
    \/ \E msg \in CompleteMessages : TrialCompleteOperation(msg)
    \/ \E r \in RequestIDs : TrialReportEarlyExit(r)
    \/ \E r \in RequestIDs : TrialReportProgress(r)
    \/ \E r \in RequestIDs : ChildStopped(r)
    \/ \E r \in RequestIDs : TrialClosed(r)
    \/ ActivateExperiment
    \/ PauseExperiment
    \/ CancelExperiment
    \/ KillExperiment
    \/ \E to \in RequestedStates : PatchState(to)
    \/ PostStop

SpecExp == Init /\ [][ExpNext]_vars

\* The actor system delivers PostStop to an actor that was told to stop.
SpecExpLive == SpecExp /\ WF_vars(PostStop)

\* The batches of operations the Searcher returns, and the trials' ends.
BatchNext ==
    \/ \E res \in AnyResults : Batch(res)
    \/ \E r \in RequestIDs : ChildStopped(r)

SpecBatch == Init /\ [][BatchNext]_vars

\* The queue under its owner's calls.
QueueNext ==
    \/ \E ev \in NewEvents : Enqueue(ev)
    \/ \E id \in EventIDArgs : RemoveUpTo(id)
    \/ GetEvents

SpecQueue == QueueInit /\ [][QueueNext]_vars

\* The queue under every exported operation.
OpsNext ==
    \/ \E ev \in NewEvents : Enqueue(ev)
    \/ \E id \in EventIDArgs : RemoveUpTo(id)
    \/ GetEvents
    \/ \E which \in {"nil", "view"} : SetEvents(which)

SpecOps == QueueInit /\ [][OpsNext]_vars

\* The queue and a client that keeps the slice GetEvents returned and
\* writes through it.
ClientNext ==
    \/ \E ev \in NewEvents : Enqueue(ev)
    \/ \E id \in EventIDArgs : RemoveUpTo(id)
    \/ GetEvents
    \/ \E i, j \in 1..MaxEnqueues : ClientWrite(i, j)
    \/ \E i \in 1..MaxEnqueues, id \in 0..MaxEnqueues : ClientSetId(i, id)

SpecClient == QueueInit /\ [][ClientNext]_vars

\* A customSearch: events enqueued and acknowledged, progress pushed, and
\* its snapshot restored on a new customSearch.
SearchNext ==
    \/ \E ev \in NewEvents : Enqueue(ev)
    \/ \E id \in EventIDArgs : RemoveUpTo(id)
    \/ \E p \in ProgressInputs : SetCustomSearcherProgress(p)
    \/ SnapshotRestore
    \/ \E s \in PriorStates : RestoreOver(s)

SpecSearch == QueueInit /\ [][SearchNext]_vars

\* An entry of a persisted trial-state map: a created trial with an
\* outstanding ValidateAfter.
Persisted(r, c) ==
    [Create |-> CreateOp(r, c), Op |-> ValidateAfterOp(r, 1),
     Complete |-> FALSE, Closed |-> FALSE]

\* The trial-state maps a restored experiment is handed by Restore: no
\* trial, one trial, and two trials of which the second may have a
\* checkpoint that cannot be resolved any more.
PersistedStates ==
    {<<>>, [r \in {"R1"} |-> Persisted(r, "none")]}
      \cup {[r \in RequestIDs |->
               Persisted(r, IF r = "R2" THEN c ELSE "none")] :
              c \in {"none", "missing"}}

\* An experiment as newExperiment and, for a restored one, Restore leave it.
StartInit ==
    /\ QInit
    /\ CInit
    /\ State \in {ActiveState, PausedState}
    /\ expRestored \in BOOLEAN
    /\ TrialSearcherState \in
         IF expRestored THEN PersistedStates ELSE {<<>>}
    /\ children = {}
    /\ actor = "new"
    /\ lastMsg = [type |-> "none"]
    /\ resp = NoResponse
    /\ told = {}
    /\ call = NoCall
    /\ updatedTrials = {}
    /\ ran = <<>>
    /\ stateTold = {}
    /\ saved = NotSaved
    /\ executed = {}
    /\ replaced = {}
    /\ spawned = {}
    /\ snapshots = <<>>
    /\ savedProgress = NoProgress
    /\ deleted = FALSE
    /\ log = <<>>

\* The start of an experiment and the end of its trials.
StartNext ==
    \/ PreStart
    \/ \E r \in RequestIDs : ChildStopped(r)
    \/ CancelExperiment
    \/ PostStop

SpecStart == StartInit /\ [][StartNext]_vars

(* ------------------- priority, weight, resource pool ------------------- *)

\* The priorities a message carries: pointers to an int.
Priorities == {<<1>>, <<2>>}

Weights == {1, 2}

\* The resource pools there are.
ResourcePools == {"default", "gpu"}

\* The pool names a message carries: "none" is the name of no pool.
PoolNames == ResourcePools \cup {"none"}

\* What the calls of a setter do: whether e.db.SaveExperimentConfig
\* succeeds, whether the resource manager accepts the forwarded value, and
\* whether the setter's second SaveExperimentConfig succeeds.
Outcomes == [saveOk : BOOLEAN, forwardOk : BOOLEAN, rollbackOk : BOOLEAN]

\* A setter's result: the configuration in memory, the one in the database
\* and whether the setter returns an error.
Set(cfg, db, err) == [Config |-> cfg, dbConfig |-> db, err |-> err]

setPriorityKeepsSaved(cfg, db, priority, forward, o) ==
    IF priority = Unset
    THEN Set(cfg, db, FALSE)
    ELSE LET new == [cfg EXCEPT !.Priority = priority]
             saved1 == IF o.saveOk THEN new ELSE db
         IN IF o.saveOk /\ (forward => o.forwardOk)
            THEN Set(new, new, FALSE)
            ELSE Set(cfg, saved1, ~o.rollbackOk)

\* setPriority(ctx, priority, forward): the deferred function restores the
\* old priority, saves again and returns that save's error.
setPriority(cfg, db, priority, forward, o) ==
    IF priority = Unset
    THEN Set(cfg, db, FALSE)
    ELSE LET new == [cfg EXCEPT !.Priority = priority]
             old == [new EXCEPT !.Priority = cfg.Priority]
             saved1 == IF o.saveOk THEN new ELSE db
         IN IF o.saveOk /\ (forward => o.forwardOk)
            THEN Set(new, new, FALSE)
            ELSE Set(old, IF o.rollbackOk THEN old ELSE saved1,
                     ~o.rollbackOk)

\* setWeight(ctx, weight)
setWeight(cfg, db, weight, o) ==
    LET new == [cfg EXCEPT !.Weight = weight]
        old == [new EXCEPT !.Weight = cfg.Weight]
    IN IF ~o.saveOk
       THEN Set(old, db, TRUE)
       ELSE IF ~o.forwardOk
            THEN Set(old, new, TRUE)
            ELSE Set(new, new, FALSE)

\* setRP(ctx, msg); k8s is sproto.UseK8sRM.
setRP(cfg, db, pool, k8s, o) ==
    LET new == [cfg EXCEPT !.ResourcePool = pool]
        old == [new EXCEPT !.ResourcePool = cfg.ResourcePool]
    IN IF k8s \/ pool \notin ResourcePools
       THEN Set(cfg, db, TRUE)
       ELSE IF ~o.saveOk
            THEN Set(old, db, TRUE)
            ELSE Set(new, new, FALSE)

\* ctx.Respond(err) with a nil error and with an error.
NilError == Response("nil", "-")

Error == Response("error", "-")

\* A handler that calls a setter is done; respond says whether it answers
\* when the setter returns no error.
Patched(set, msg, respond) ==
    /\ Config' = set.Config
    /\ dbConfig' = set.dbConfig
    /\ lastMsg' = msg
    /\ resp' = IF set.err THEN Error
               ELSE IF respond THEN NilError ELSE NoResponse
    /\ told' = {}
    /\ call' = NoCall
    /\ updatedTrials' = {}
    /\ ran' = <<>>
    /\ stateTold' = {}
    /\ saved' = NotSaved
    /\ executed' = {}
    /\ replaced' = {}
    /\ spawned' = {}
    /\ snapshots' = <<>>
    /\ Quiet
    /\ UNCHANGED <<State, TrialSearcherState, children, actor, qvars,
                   expRestored>>

\* case job.SetGroupPriority
SetGroupPriority(p, o) ==
    /\ actor = "running"
    /\ Patched(setPriority(Config, dbConfig, p, TRUE, o),
               [type |-> "SetGroupPriority", value |-> p, outcome |-> o],
               TRUE)

\* case sproto.NotifyRMPriorityChange
NotifyRMPriorityChange(p, o) ==
    /\ actor = "running"
    /\ Patched(setPriority(Config, dbConfig, p, FALSE, o),
               [type |-> "NotifyRMPriorityChange", value |-> p,
                outcome |-> o],
               TRUE)

\* case job.SetGroupWeight
SetGroupWeight(w, o) ==
    /\ actor = "running"
    /\ Patched(setWeight(Config, dbConfig, w, o),
               [type |-> "SetGroupWeight", value |-> <<w>>, outcome |-> o],
               FALSE)

\* case job.SetResourcePool
SetResourcePool(pool, k8s, o) ==
    /\ actor = "running"
    /\ Patched(setRP(Config, dbConfig, pool, k8s, o),
               [type |-> "SetResourcePool", value |-> <<pool, k8s>>,
                outcome |-> o],
               FALSE)

\* The experiment as PreStart leaves it when the Searcher returns no
\* operation, with the priority unset or set.
PatchInit ==
    /\ QInit
    /\ State \in {ActiveState, PausedState}
    /\ TrialSearcherState = <<>>
    /\ children = {}
    /\ actor = "running"
    /\ lastMsg = [type |-> "PreStart"]
    /\ resp = NoResponse
    /\ told = {}
    /\ call = <<"InitialOperations">>
    /\ updatedTrials = {}
    /\ ran = <<>>
    /\ stateTold = {}
    /\ saved = NotSaved
    /\ executed = {}
    /\ replaced = {}
    /\ spawned = {}
    /\ snapshots = <<>>
    /\ savedProgress = NoProgress
    /\ deleted = FALSE
    /\ log = <<>>
    /\ Config \in {[Priority |-> p, Weight |-> 1, ResourcePool |-> "default"] :
                     p \in {Unset, <<1>>}}
    /\ dbConfig = Config
    /\ expRestored = FALSE

\* The changes of the priority, the weight and the resource pool.
PatchNext ==
    \/ \E p \in Priorities, o \in Outcomes : SetGroupPriority(p, o)
    \/ \E p \in Priorities, o \in Outcomes : NotifyRMPriorityChange(p, o)
    \/ \E w \in Weights, o \in Outcomes : SetGroupWeight(w, o)
    \/ \E pool \in PoolNames, k8s \in BOOLEAN, o \in Outcomes :
         SetResourcePool(pool, k8s, o)

SpecPatch == PatchInit /\ [][PatchNext]_vars

(* ----------------------- the hooks of customSearch --------------------- *)

\* A SearcherEvent as a hook hands it to Enqueue: the variant, the request
\* id and the other fields of the variant.
HookEvent(k, r, data) == [Id |-> 0, kind |-> k, rid |-> r, data |-> data]

\* The units of progress a trial reports and the metric of a validation.
PartialUnits == {5}

Metrics == {7}

\* The reasons of an early exit.
ExitedReasons == {"ERRORED"}

\* model.ExitedReasonToProto(exitedReason): the value of the proto enum.
ExitedReasonToProto(reason) == <<"EXITED_REASON", reason>>

\* What a hook does: the event it enqueues and the operations and the
\* error it returns, with the call that is recorded.
Hooked(name, args, ev, ops, err) ==
    [call |-> [name |-> name, args |-> args, ops |-> ops],
     event |-> ev, err |-> err]

\* initialOperations(ctx)
customSearch_initialOperations ==
    Hooked("initialOperations", <<>>,
           HookEvent("InitialOperations", "-", <<>>), <<>>, Nil)

\* trialProgress(ctx, requestID, progress); it returns nothing.
customSearch_trialProgress(r, units) ==
    Hooked("trialProgress", <<r, units>>,
           HookEvent("TrialProgress", r, <<units>>), <<>>, Nil)

\* trialCreated(ctx, requestID)
customSearch_trialCreated(r) ==
    Hooked("trialCreated", <<r>>, HookEvent("TrialCreated", r, <<>>),
           <<>>, Nil)

customSearch_validationCompletedTrialLength(r, metric, op) ==
    Hooked("validationCompleted", <<r, metric, op>>,
           HookEvent("ValidationCompleted", r, <<metric, op.Length>>),
           <<>>, Nil)

\* validationCompleted(ctx, requestID, metric, op)
customSearch_validationCompleted(r, metric, op) ==
    Hooked("validationCompleted", <<r, metric, op>>,
           HookEvent("ValidationCompleted", r, <<op.Length, metric>>),
           <<>>, Nil)

\* trialExitedEarly(ctx, requestID, exitedReason)
customSearch_trialExitedEarly(r, reason) ==
    Hooked("trialExitedEarly", <<r, reason>>,
           HookEvent("TrialExitedEarly", r, <<ExitedReasonToProto(reason)>>),
           <<>>, Nil)

\* trialClosed(ctx, requestID)
customSearch_trialClosed(r) ==
    Hooked("trialClosed", <<r>>, HookEvent("TrialClosed", r, <<>>),
           <<>>, Nil)

\* The calls of the hooks.
HookCalls ==
    {customSearch_initialOperations}
      \cup {customSearch_trialProgress(r, u) :
              r \in RequestIDs, u \in PartialUnits}
      \cup {customSearch_trialCreated(r) : r \in RequestIDs}
      \cup {customSearch_validationCompleted(r, m, ValidateAfterOp(r, l)) :
              r \in RequestIDs, m \in Metrics, l \in Lengths}
      \cup {customSearch_trialExitedEarly(r, x) :
              r \in RequestIDs, x \in ExitedReasons}
      \cup {customSearch_trialClosed(r) : r \in RequestIDs}

\* A hook is called: its event is enqueued.
Hook(h) ==
    /\ Enqueued(h.event)
    /\ Record(h.call.name, NoArg, h.err, NewCustomSearchState)
    /\ hook' = h.call
    /\ UNCHANGED pushed

\* The customSearch under the calls of its hooks, and the client that
\* acknowledges the events.
HooksNext ==
    \/ \E h \in HookCalls : Hook(h)
    \/ \E id \in EventIDArgs : RemoveUpTo(id)

SpecHooks == QueueInit /\ [][HooksNext]_vars

(* ------------------- properties of SearcherEventQueue ------------------ *)

Unacked(e) == e.Id > acked

\* C1: under any interleaving of Enqueue and RemoveUpTo calls the k-th
\* Enqueue assigns id k, so the assigned ids are 1, 2, 3, ... without gap
\* and no id is assigned twice.
C1_KthEnqueueAssignsK == \A k \in 1..Len(assigned) : assigned[k] = k

\* C1 witness: an Enqueue that follows a successful RemoveUpTo.
C1_Witness == lastOp = "Enqueue" /\ acked >= 1 /\ Len(assigned) >= 3

\* C2: when the queue holds an event with the id, RemoveUpTo(id) returns no
\* error, the queue becomes exactly the events after that event, unchanged
\* and in order, and EventCount keeps its value.
C2_RemoveUpToDropsPrefix ==
    [][(lastOp' = "RemoveUpTo" /\ arg'.held # 0)
         => /\ ret' = Nil
            /\ Events' = SubSeq(Events, arg'.held + 1, Len(Events))
            /\ EventCount' = EventCount]_vars

\* C2 witness: RemoveUpTo removed events and left a suffix.
C2_Witness ==
    /\ lastOp = "RemoveUpTo" /\ ret = Nil /\ arg.held >= 2
    /\ Len(Events) >= 1 /\ Events[1].Id = acked + 1

\* C3: when no event of the queue has the id, RemoveUpTo(id) returns
\* "event not found" and leaves the events and EventCount as they were.
C3_RemoveUpToUnknownIdFails ==
    [][(lastOp' = "RemoveUpTo" /\ arg'.held = 0)
         => /\ ret' = NotFound
            /\ Events' = Events
            /\ EventCount' = EventCount]_vars

\* C4: a new customSearch restored from the snapshot of a customSearch is
\* observably identical to it: same events, ids, order, EventCount, progress.
C4_RestoreOfSnapshotIsIdentical ==
    lastOp = "Restore" =>
        Observable(restored) = Observable(CurrentSearchState)

\* C5: after any Enqueue and RemoveUpTo calls, the queue (and the result of
\* GetEvents) is exactly the events enqueued and not removed by a successful
\* RemoveUpTo, in enqueue order, which is ascending id order.
C5_GetEventsReturnsUnacked ==
    /\ Events = SelectSeq(enqueued, Unacked)
    /\ lastOp = "GetEvents" => Deref(ViewPtrs) = SelectSeq(enqueued, Unacked)
    /\ \A i, j \in 1..Len(Events) : i < j => Events[i].Id < Events[j].Id

\* C5 witness: GetEvents on a queue that was truncated and still holds events.
C5_Witness == lastOp = "GetEvents" /\ acked >= 1 /\ Len(Events) >= 2

\* C6: a write through the slice GetEvents returned (an element overwritten,
\* an event's id changed) does not change the events of the queue.
C6_ClientWritesDoNotReachQueue ==
    [][lastOp' \in {"ClientWrite", "ClientSetId"} => Events' = Events]_vars

\* C7 as claimed: only Enqueue and RemoveUpTo change the events; an Enqueue
\* adds exactly one event at the tail; the queue shrinks only through a
\* successful RemoveUpTo.
C7_OnlyEnqueueAndRemoveUpToMutate ==
    [][/\ Events' # Events => lastOp' \in {"Enqueue", "RemoveUpTo"}
       /\ lastOp' = "Enqueue" => Events' = Events \o <<Events'[Len(Events')]>>
       /\ Len(Events') < Len(Events) => lastOp' = "RemoveUpTo" /\ ret' = Nil
      ]_vars

\* C7 amended: only Enqueue, RemoveUpTo and SetEvents change the events; an
\* Enqueue adds exactly one event at the tail; GetEvents changes nothing;
\* the queue shrinks only through a successful RemoveUpTo or through
\* SetEvents, which replaces the events by those of the slice it is given.
C7_OnlyEnqueueRemoveUpToSetEventsMutate ==
    [][/\ Events' # Events
            => lastOp' \in {"Enqueue", "RemoveUpTo", "SetEvents"}
       /\ lastOp' = "Enqueue" => Events' = Events \o <<Events'[Len(Events')]>>
       /\ Len(Events') < Len(Events)
            => \/ lastOp' = "RemoveUpTo" /\ ret' = Nil
               \/ lastOp' = "SetEvents"
       /\ lastOp' = "SetEvents" => Events' \in {<<>>, Deref(ViewPtrs)}
      ]_vars

\* C7 witness: SetEvents has put back events that RemoveUpTo had removed.
C7_Witness ==
    /\ lastOp = "SetEvents" /\ Len(Events) >= 2
    /\ Events # SelectSeq(enqueued, Unacked)

(* ---------------------- properties of the experiment ------------------- *)

\* The cases in which the message is to be rejected: its requestID is no
\* known trial, its op is not that trial's recorded operation, or that
\* operation is complete.
ToReject(msg) ==
    \/ msg.requestID \notin DOMAIN TrialSearcherState
    \/ msg.op # TrialSearcherState[msg.requestID].Op
    \/ TrialSearcherState[msg.requestID].Complete

\* The trial's entry is closed and not complete.
ClosedIncomplete(tss, r) ==
    r \in DOMAIN tss /\ tss[r].Closed /\ ~tss[r].Complete

\* C8: a trialCompleteOperation whose requestID is no known trial, whose op
\* is not the trial's recorded operation or whose recorded operation is
\* complete gets a validation error, and the trial-state map is unchanged,
\* no trial is notified and the Searcher is not called.
C8_TrialCompleteOperationRejected ==
    [][(lastMsg'.type = "trialCompleteOperation" /\ ToReject(lastMsg'))
         => /\ resp' = ValidationError
            /\ TrialSearcherState' = TrialSearcherState
            /\ told' = {}
            /\ call' = NoCall]_vars

\* C9 as claimed: no handler records a new ValidateAfter for a trial whose
\* recorded ValidateAfter is still incomplete.
C9_OutstandingNeverReplaced == replaced = {}

\* C9 amended: a trial's entry holds one ValidateAfter, and a ValidateAfter
\* executed for a trial always becomes the recorded one, incomplete, whether
\* or not the one it replaces was complete.
C9_ExecutedValidateAfterIsRecorded ==
    \A op \in executed :
        /\ op.RequestID \in DOMAIN TrialSearcherState
        /\ TrialSearcherState[op.RequestID].Op = op
        /\ ~TrialSearcherState[op.RequestID].Complete

\* C9 witness: an incomplete ValidateAfter of a created trial was replaced
\* by another one.
C9_Witness ==
    \E op \in executed :
        /\ op.RequestID \in replaced
        /\ TrialSearcherState[op.RequestID].Create # ZeroCreate
        /\ lastMsg.type = "trialCreated"

\* C10 as claimed: every entry of the trial-state map that is closed is
\* complete.
C10_ClosedImpliesComplete ==
    \A r \in DOMAIN TrialSearcherState :
        TrialSearcherState[r].Closed => TrialSearcherState[r].Complete

\* C10 amended: an entry becomes closed and not complete only in a handler
\* that executes a ValidateAfter or a Close for the trial, and an accepted
\* early exit that executes neither leaves the entry closed and complete.
C10_ClosedIncompleteOnlyByOperations ==
    [][/\ \A r \in RequestIDs :
            (ClosedIncomplete(TrialSearcherState', r)
               /\ ~ClosedIncomplete(TrialSearcherState, r))
              => r \in updatedTrials'
       /\ (lastMsg'.type = "trialReportEarlyExit" /\ resp' = NoResponse
             /\ lastMsg'.requestID \notin updatedTrials')
            => ~ClosedIncomplete(TrialSearcherState', lastMsg'.requestID)
      ]_vars

\* C10 witness: a created trial is closed while its ValidateAfter is
\* incomplete.
C10_Witness ==
    \E r \in DOMAIN TrialSearcherState :
        /\ ClosedIncomplete(TrialSearcherState, r)
        /\ TrialSearcherState[r].Create # ZeroCreate
        /\ TrialSearcherState[r].Op # ZeroOp
        /\ r \in updatedTrials

\* C11: the actor is told to stop only in a stopping state and with no live
\* child trial.
C11_StopsOnlyStoppingAndChildless ==
    actor = "stopping" => State \in StoppingStates /\ children = {}

\* C12: an experiment in a stopping state without a live child trial
\* eventually is in the terminal state that matches the stopping state.
C12_StoppingWithoutChildrenTerminates ==
    \A s \in StoppingStates :
        (State = s /\ children = {} /\ actor \in {"running", "stopping"})
          ~> (State = StoppingToTerminalStates[s] /\ actor = "stopped")

\* C12 witness: an experiment that had a trial has stopped as canceled.
C12_Witness ==
    /\ actor = "stopped"
    /\ State = CanceledState
    /\ "R1" \in DOMAIN TrialSearcherState
    /\ lastMsg.type = "PostStop"

\* C13: a Create executed for R spawns the trial R and records
\* {Create: op, Complete: true}; a ValidateAfter executed for R afterwards
\* records the operation with Complete false and keeps Create and Closed.
C13_CreateThenValidateAfter ==
    [][lastMsg'.type = "processOperations" =>
         /\ \A op \in Operations :
              (ran' = <<op>> /\ op.type = "Create")
                => /\ children' = children \cup {op.RequestID}
                   /\ TrialSearcherState' =
                        Put(TrialSearcherState, op.RequestID,
                            [Create |-> op, Op |-> ZeroOp,
                             Complete |-> TRUE, Closed |-> FALSE])
         /\ \A op \in Operations :
              (ran' = <<op>> /\ op.type = "ValidateAfter"
                 /\ op.RequestID \in DOMAIN TrialSearcherState)
                => /\ children' = children
                   /\ TrialSearcherState' =
                        Put(TrialSearcherState, op.RequestID,
                            [Create |->
                                TrialSearcherState[op.RequestID].Create,
                             Op |-> op, Complete |-> FALSE,
                             Closed |->
                                TrialSearcherState[op.RequestID].Closed])
         /\ (Len(ran') = 2 /\ ran'[1].type = "Create"
               /\ ran'[2].type = "ValidateAfter")
              => TrialSearcherState'["R1"] =
                   [Create |-> ran'[1], Op |-> ran'[2],
                    Complete |-> FALSE, Closed |-> FALSE]
      ]_vars

\* C13 witness: a ValidateAfter alone was executed for a created trial that
\* is closed.
C13_Witness ==
    /\ lastMsg.type = "processOperations"
    /\ Len(ran) = 1
    /\ ran[1].type = "ValidateAfter"
    /\ TrialSearcherState["R1"].Create # ZeroCreate
    /\ TrialSearcherState["R1"].Closed

\* The state an Activate or Pause request asks for.
RequestedState(msg) ==
    IF msg.type = "ActivateExperimentRequest" THEN ActiveState
    ELSE PausedState

C17_CancelKillIdempotent ==
    [][lastMsg'.type \in {"CancelExperimentRequest",
                          "KillExperimentRequest"} =>
         /\ State \in StoppingStates \cup TerminalStates
              => /\ resp' = OK
                 /\ State' = State
                 /\ saved' = NotSaved
                 /\ stateTold' = {}
                 /\ told' = {}
                 /\ UNCHANGED <<TrialSearcherState, children, actor>>
         /\ resp' = OK => State' \in StoppingStates \cup TerminalStates
      ]_vars

\* C17 witness: a Kill request was acknowledged in the stopping-completed
\* state of an experiment with a live child.
C17_Witness ==
    /\ lastMsg.type = "KillExperimentRequest"
    /\ resp = OK
    /\ State = StoppingCompletedState
    /\ children # {}

\* C18: from a stopping state the experiment moves only to the matching
\* terminal state, which PostStop moves it to, and it never leaves a
\* terminal state.
C18_StateMovesTowardTerminal ==
    [][/\ State \in StoppingStates
            => State' \in {State, StoppingToTerminalStates[State]}
       /\ State \in TerminalStates => State' = State
       /\ lastMsg'.type = "PostStop"
            => /\ State \in StoppingStates
               /\ State' = StoppingToTerminalStates[State]
      ]_vars

\* C18 witness: a Pause request failed in the stopping-error state.
C18_Witness ==
    /\ lastMsg.type = "PauseExperimentRequest"
    /\ resp = FailedPrecondition(StoppingErrorState)
    /\ State = StoppingErrorState

\* C20: an early exit of an unknown request id is answered with a
\* validation error and changes nothing; for a known one the trial is told
\* its state with Complete and Closed set, that state is recorded, and
\* TrialExitedEarly for the request id is fed to the Searcher.
C20_EarlyExit ==
    [][lastMsg'.type = "trialReportEarlyExit" =>
         LET r == lastMsg'.requestID
         IN IF r \notin DOMAIN TrialSearcherState
            THEN /\ resp' = ValidationError
                 /\ call' = NoCall
                 /\ told' = {}
                 /\ stateTold' = {}
                 /\ UNCHANGED <<State, TrialSearcherState, children, actor>>
            ELSE LET exited == [Create |-> TrialSearcherState[r].Create,
                                Op |-> TrialSearcherState[r].Op,
                                Complete |-> TRUE, Closed |-> TRUE]
                 IN /\ resp' = NoResponse
                    /\ call' = <<"TrialExitedEarly", r>>
                    /\ Notice(r, exited) \in told'
                    /\ State \in StoppingStates
                         => TrialSearcherState' =
                              Put(TrialSearcherState, r, exited)
      ]_vars

\* C20 witness: the early exit of a trial with an outstanding ValidateAfter
\* was accepted.
C20_Witness ==
    /\ lastMsg.type = "trialReportEarlyExit"
    /\ call = <<"TrialExitedEarly", "R1">>
    /\ TrialSearcherState["R1"].Op # ZeroOp
    /\ TrialSearcherState["R1"].Complete
    /\ TrialSearcherState["R1"].Closed

(* --------------------- properties of the setters ----------------------- *)

\* The setter was asked to forward and the resource manager refused.
ForwardFailed(msg) ==
    /\ msg.type \in {"SetGroupPriority", "SetGroupWeight"}
    /\ msg.outcome.saveOk
    /\ ~msg.outcome.forwardOk

\* C14 as claimed: a set-priority command whose forward fails leaves the
\* priority in memory and the persisted priority as they were.
C14_PriorityRolledBack ==
    [][(lastMsg'.type = "SetGroupPriority" /\ ForwardFailed(lastMsg'))
         => /\ Config'.Priority = Config.Priority
            /\ dbConfig'.Priority = dbConfig.Priority]_vars

\* C14 amended: a set-priority command whose forward fails leaves the
\* priority in memory as it was, unset included; the persisted priority is
\* that value when the compensating write succeeds and the new value when
\* it fails.
C14_PriorityRolledBackIfSaved ==
    [][(lastMsg'.type = "SetGroupPriority" /\ ForwardFailed(lastMsg'))
         => /\ Config' = Config
            /\ dbConfig'.Priority =
                 IF lastMsg'.outcome.rollbackOk THEN Config.Priority
                 ELSE lastMsg'.value]_vars

\* C14 witness: the forward of a priority for an experiment without one
\* failed and the priority is unset again, in memory and in the database.
C14_Witness ==
    /\ lastMsg.type = "SetGroupPriority"
    /\ ForwardFailed(lastMsg)
    /\ lastMsg.outcome.rollbackOk
    /\ Config.Priority = Unset
    /\ dbConfig.Priority = Unset

\* C15: a weight or resource-pool command whose forward fails leaves the
\* setting in memory and the persisted setting as they were.
C15_WeightAndPoolRolledBack ==
    [][(lastMsg'.type \in {"SetGroupWeight", "SetResourcePool"}
          /\ ForwardFailed(lastMsg'))
         => /\ Config' = Config
            /\ dbConfig' = dbConfig]_vars

(* ----------------------- properties of the start ----------------------- *)

\* C19 as claimed: PreStart happens once; a restored experiment makes every
\* entry of its trial-state map a child and does not ask for the initial
\* operations, a fresh one asks for them.
C19_OnePathReplaysEveryEntry ==
    [][/\ actor' # "new"
       /\ call' = <<"InitialOperations">>
            => actor = "new" /\ ~expRestored
       /\ (actor = "new" /\ actor' # "failed")
            => IF expRestored
               THEN /\ call' = NoCall
                    /\ TrialSearcherState' = TrialSearcherState
                    /\ children' = DOMAIN TrialSearcherState
               ELSE call' = <<"InitialOperations">>
      ]_vars

\* C19 amended: PreStart happens once; a restored experiment does not ask
\* for the initial operations and makes the entries of its trial-state map
\* children, all of them unless the checkpoint of an entry cannot be
\* resolved: then it is forced into the stopping-error state and that
\* entry, and those the loop had not reached, get no child. A fresh
\* experiment asks for the initial operations.
C19_OnePathReplaysUntilFailure ==
    [][/\ actor' # "new"
       /\ call' = <<"InitialOperations">>
            => actor = "new" /\ ~expRestored
       /\ (actor = "new" /\ actor' # "failed")
            => IF expRestored
               THEN /\ call' = NoCall
                    /\ TrialSearcherState' = TrialSearcherState
                    /\ children' \subseteq DOMAIN TrialSearcherState
                    /\ \/ /\ children' = DOMAIN TrialSearcherState
                          /\ State' = State
                       \/ /\ State' = StoppingErrorState
                          /\ \E r \in DOMAIN TrialSearcherState \ children' :
                               checkpointForCreateFails(
                                   TrialSearcherState[r].Create)
                          /\ \A r \in children' :
                               ~checkpointForCreateFails(
                                    TrialSearcherState[r].Create)
               ELSE call' = <<"InitialOperations">>
      ]_vars

\* C19 witness: a restored experiment with two entries has both trials as
\* children and made no Searcher call.
C19_Witness ==
    /\ expRestored
    /\ lastMsg.type = "PreStart"
    /\ actor = "running"
    /\ call = NoCall
    /\ children = {"R1", "R2"}

(* ------------- properties of the handlers and of the batches ----------- *)

\* C21: a trialReportProgress message executes no operation, spawns and
\* closes no trial, tells no trial anything and leaves the trial-state map,
\* the experiment state and the actor as they were; it tells the Searcher
\* the trial's progress and saves the progress the Searcher computes.
C21_ProgressReportDecidesNothing ==
    [][lastMsg'.type = "trialReportProgress" =>
         /\ UNCHANGED <<State, TrialSearcherState, children, actor>>
         /\ told' = {}
         /\ updatedTrials' = {}
         /\ stateTold' = {}
         /\ executed' = {}
         /\ replaced' = {}
         /\ spawned' = {}
         /\ saved' = NotSaved
         /\ resp' = NoResponse
         /\ call' = <<"SetTrialProgress", lastMsg'.requestID>>
         /\ savedProgress' \in ProgressValues
      ]_vars

\* C21 witness: the progress of a trial with an outstanding ValidateAfter
\* was reported and the progress saved.
C21_Witness ==
    /\ lastMsg.type = "trialReportProgress"
    /\ lastMsg.requestID = "R1"
    /\ savedProgress = 5
    /\ TrialSearcherState["R1"].Op # ZeroOp
    /\ ~TrialSearcherState["R1"].Complete

\* C22 as claimed: when the Searcher call returned an error, the experiment
\* is in the stopping-error state afterwards and none of the operations
\* returned is executed.
C22_SearcherErrorForcesStoppingError ==
    [][(lastMsg'.type = "processOperations" /\ lastMsg'.err)
         => /\ State' = StoppingErrorState
            /\ ran' = <<>>
            /\ UNCHANGED <<TrialSearcherState, children>>]_vars

\* C22 amended: when the Searcher call returned an error, none of the
\* operations returned is executed; an experiment that is not in a stopping
\* state is forced into the stopping-error state, and one that is in a
\* stopping state stays in it: nothing is saved and no child is told.
C22_SearcherErrorForcesStoppingErrorUnlessStopping ==
    [][(lastMsg'.type = "processOperations" /\ lastMsg'.err)
         => /\ ran' = <<>>
            /\ log' = <<>>
            /\ told' = {}
            /\ UNCHANGED <<TrialSearcherState, children>>
            /\ IF State \in StoppingStates
               THEN /\ State' = State
                    /\ saved' = NotSaved
                    /\ stateTold' = {}
               ELSE /\ State' = StoppingErrorState
                    /\ saved' = StoppingErrorState
                    /\ stateTold' = children]_vars

\* C22 witness: an error that came with an operation was dropped by an
\* experiment that is completing and has a live trial.
C22_Witness ==
    /\ lastMsg.type = "processOperations"
    /\ lastMsg.err
    /\ lastMsg.ops # <<>>
    /\ State = StoppingCompletedState
    /\ children # {}

\* The operation ends the loop of processOperations before it is applied:
\* a Create whose checkpoint cannot be resolved, or an unexpected operation.
EndsLoop(op) ==
    \/ op = OtherOp
    \/ op.type = "Create" /\ op.Checkpoint = "missing"

\* The index of the first operation that ends the loop, 0 if there is none.
FirstEnd(ops) ==
    IF \E i \in 1..Len(ops) : EndsLoop(ops[i])
    THEN CHOOSE i \in 1..Len(ops) :
            EndsLoop(ops[i]) /\ \A j \in 1..(i - 1) : ~EndsLoop(ops[j])
    ELSE 0

\* The message is a batch that processOperations goes through.
Processed(msg, state) ==
    msg.type = "processOperations" /\ ~msg.err /\ state \notin StoppingStates

\* The trials whose state a ValidateAfter or a Close among the first n
\* operations changes.
Changed(ops, n) ==
    {ops[i].RequestID :
       i \in {j \in 1..n : ops[j].type \in {"ValidateAfter", "Close"}}}

\* C23: a Create whose checkpoint cannot be resolved forces the experiment
\* into the stopping-error state, spawns no trial, records no entry for
\* the Create and ends the batch: no later operation is executed.
C23_FailedCreateIsFatal ==
    [][Processed(lastMsg', State) =>
         LET ops == lastMsg'.ops
             k == FirstEnd(ops)
         IN (k # 0 /\ ops[k] # OtherOp)
              => /\ State' = StoppingErrorState
                 /\ ran' = SubSeq(ops, 1, k - 1)
                 /\ Lookup(TrialSearcherState', ops[k].RequestID).Create
                      # ops[k]
                 /\ children' =
                      children \cup
                        {ops[i].RequestID :
                           i \in {j \in 1..(k - 1) : ops[j].type = "Create"}}
      ]_vars

\* C24 as claimed: a batch is applied in list order, then every trial whose
\* state a ValidateAfter or a Close of the batch changed is told its new
\* state, and then the snapshot with the trial-state map is saved.
C24_OpsThenNoticesThenSnapshot ==
    [][Processed(lastMsg', State) =>
         LET ops == lastMsg'.ops
             n == Len(ops)
             notices == {Notice(r, TrialSearcherState'[r]) :
                           r \in Changed(ops, n)}
         IN /\ Len(log') = n + 2
            /\ \A i \in 1..n : log'[i] = Applied(ops[i])
            /\ log'[n + 1] = Told(notices)
            /\ log'[n + 2] = Snapshotted(TrialSearcherState')
            /\ told' = notices
      ]_vars

\* C24 amended: the operations are applied in list order up to the first
\* Create whose checkpoint cannot be resolved (or unexpected operation).
\* When there is none, every trial whose state a ValidateAfter or a Close
\* of the batch changed is told its new state and then the snapshot is
\* saved; otherwise no trial is told, also not those whose state the
\* applied operations changed, and the snapshot is saved all the same.
C24_OpsThenNoticesUnlessInterruptedThenSnapshot ==
    [][Processed(lastMsg', State) =>
         LET ops == lastMsg'.ops
             k == FirstEnd(ops)
             n == IF k = 0 THEN Len(ops) ELSE k - 1
             notices == {Notice(r, TrialSearcherState'[r]) :
                           r \in Changed(ops, n)}
         IN /\ \A i \in 1..n : log'[i] = Applied(ops[i])
            /\ log'[Len(log')] = Snapshotted(TrialSearcherState')
            /\ IF k = 0
               THEN /\ Len(log') = n + 2
                    /\ log'[n + 1] = Told(notices)
                    /\ told' = notices
               ELSE /\ Len(log') = n + 1
                    /\ told' = {}
      ]_vars

\* C24 witness: a ValidateAfter for a live trial was applied, the Create
\* after it failed, the trial was not told and the snapshot was saved.
C24_Witness ==
    /\ lastMsg.type = "processOperations"
    /\ lastMsg.ops = <<ValidateAfterOp("R1", 2), CreateOp("R1", "missing")>>
    /\ "R1" \in children
    /\ TrialSearcherState["R1"].Op = ValidateAfterOp("R1", 2)
    /\ told = {}
    /\ log = <<Applied(ValidateAfterOp("R1", 2)),
               Snapshotted(TrialSearcherState)>>

\* C28: an entry of the trial-state map is never removed, and an entry is
\* added only for a request id a Create was executed for, which the entry
\* then records.
C28_EntriesOnlyByCreate ==
    [][/\ DOMAIN TrialSearcherState \subseteq DOMAIN TrialSearcherState'
       /\ \A r \in DOMAIN TrialSearcherState' \ DOMAIN TrialSearcherState :
            TrialSearcherState'[r].Create.RequestID = r
      ]_vars

\* C29: PostStop moves a stopping experiment to the matching terminal state
\* and writes that state; it saves progress 1.0 exactly when the experiment
\* is completing; and it deletes the snapshots exactly when the write of
\* the final state succeeded.
C29_ShutdownPersistsThenDiscards ==
    [][lastMsg'.type = "PostStop" =>
         /\ State \in StoppingStates
         /\ State' = StoppingToTerminalStates[State]
         /\ saved' \in {State', NotSaved}
         /\ savedProgress' = 10 <=> State' = CompletedState
         /\ savedProgress' \in {10, NoProgress}
         /\ deleted' <=> saved' = State'
      ]_vars

\* C29 witness: the write of the final state of a completed experiment
\* failed and its snapshots are kept.
C29_Witness ==
    /\ lastMsg.type = "PostStop"
    /\ State = CompletedState
    /\ savedProgress = 10
    /\ saved = NotSaved
    /\ ~deleted

\* The index of the first and of the last Shutdown among the operations.
FirstShutdown(ops) ==
    CHOOSE i \in 1..Len(ops) :
       ops[i].type = "Shutdown"
         /\ \A j \in 1..(i - 1) : ops[j].type # "Shutdown"

LastShutdown(ops) ==
    CHOOSE i \in 1..Len(ops) :
       ops[i].type = "Shutdown"
         /\ \A j \in (i + 1)..Len(ops) : ops[j].type # "Shutdown"

\* The state a Shutdown names.
Named(op) == IF op.Failure THEN StoppingErrorState ELSE StoppingCompletedState

\* An unexpected operation that the loop reaches fails the actor, and the
\* operations after it are not executed.
UnexpectedIsFatal ==
    Processed(lastMsg', State) =>
       LET ops == lastMsg'.ops
           k == FirstEnd(ops)
       IN (k # 0 /\ ops[k] = OtherOp)
            => actor' = "failed" /\ ran' = SubSeq(ops, 1, k - 1)

Variant(name) ==
    CASE name = "initialOperations" -> "InitialOperations"
      [] name = "trialCreated" -> "TrialCreated"
      [] name = "trialProgress" -> "TrialProgress"
      [] name = "validationCompleted" -> "ValidationCompleted"
      [] name = "trialExitedEarly" -> "TrialExitedEarly"
      [] name = "trialClosed" -> "TrialClosed"

\* C25: every hook of the customSearch returns no operation and no error
\* and appends one event to the queue: the event of the hook's variant with
\* the hook's request id and, for validationCompleted, the length of the
\* ValidateAfter and the metric; the queue's length and its id counter
\* grow by one.
C25_HookEnqueuesOneEvent ==
    [][hook'.name # "none" =>
         LET ev == Events'[Len(Events')]
             args == hook'.args
         IN /\ hook'.ops = <<>>
            /\ ret' = Nil
            /\ Len(Events') = Len(Events) + 1
            /\ SubSeq(Events', 1, Len(Events)) = Events
            /\ EventCount' = EventCount + 1
            /\ ev.Id = EventCount'
            /\ ev.kind = Variant(hook'.name)
            /\ hook'.name # "initialOperations" => ev.rid = args[1]
            /\ hook'.name = "validationCompleted"
                 => ev.data = <<args[3].Length, args[2]>>
      ]_vars

\* C25 witness: validationCompleted was called after events were
\* acknowledged, and its event with the length 2 is the second of the queue.
C25_Witness ==
    /\ hook.name = "validationCompleted"
    /\ acked >= 1
    /\ Len(Events) = 2
    /\ Events[2].kind = "ValidationCompleted"
    /\ Events[2].rid = "R2"
    /\ Events[2].data = <<2, 7>>

\* The maps progress is called with: the progress of the trials and
\* whether they are closed.
TrialProgressMaps == {<<>>, [r \in {"R1"} |-> 5]}

TrialsClosedMaps == {<<>>, [r \in {"R1"} |-> TRUE]}

\* C26: the progress of a customSearch is between 0 and 1; before a value
\* is pushed it is a value that is high and not 1.0, afterwards it is the
\* last value pushed, whatever the maps it is called with.
C26_ProgressSentinelThenEcho ==
    \A tp \in TrialProgressMaps, tc \in TrialsClosedMaps :
       LET p == customSearch_progress(CurrentSearchState, tp, tc)
       IN /\ p >= 0 /\ p <= 10
          /\ IF pushed = <<>> THEN p > 5 /\ p < 10 ELSE p = pushed[1]

\* C27: after Restore of a snapshot the events, the id counter and the
\* progress of a customSearch are those of a new customSearch restored
\* from the snapshot, whatever state it was in before.
C27_RestoreReplacesState ==
    lastOp = "RestoreOver" =>
        Observable(restored) =
            Observable(Restore(NewCustomSearchState,
                               Snapshot(CurrentSearchState)))

(* ------------ properties of the experiment: trials and batches ---------- *)

\* C31: when a trialCompleteOperation is accepted, its requestID is the
\* request id of its op, and the trial whose recorded operation was checked
\* and is marked complete, the trial that is told its state and the trial
\* ValidationCompleted is called for are all the trial requestID.
C31_CompleteOperationForOneTrial ==
    [][(lastMsg'.type = "trialCompleteOperation" /\ resp' = NoResponse)
         => LET r == lastMsg'.requestID
                was == Lookup(TrialSearcherState, r)
                done == [was EXCEPT !.Complete = TRUE]
            IN /\ lastMsg'.op.RequestID = r
               /\ r \in DOMAIN TrialSearcherState
               /\ was.Op = lastMsg'.op /\ ~was.Complete
               /\ Notice(r, done) \in told'
               /\ call' = <<"ValidationCompleted", r, lastMsg'.op>>]_vars

\* C32: no Create operation spawns a trial while the experiment is in a
\* stopping state, also not a Create that follows a Shutdown in its batch.
C32_NoTrialSpawnedWhileStopping ==
    \A s \in spawned : s.State \notin StoppingStates

\* C33: a set-priority command whose first write of the configuration
\* fails, or whose forward to the resource manager fails, answers its
\* caller with an error, whether or not the compensating write succeeds.
C33_FailedPriorityAnswersError ==
    [][(/\ lastMsg'.type = "SetGroupPriority"
        /\ (~lastMsg'.outcome.saveOk \/ ~lastMsg'.outcome.forwardOk))
         => resp' = Error]_vars

\* C34: RemoveUpTo with an argument beyond the range of an int32 returns
\* "event not found" and leaves the events as they were.
C34_RemoveUpToBeyondInt32Fails ==
    [][(lastOp' = "RemoveUpTo" /\ arg'.hi # 0)
         => /\ ret' = NotFound
            /\ Events' = Events]_vars

ChangesSnapshot(msg, answer) ==
    \/ msg.type \in {"trialCreated", "trialClosed", "ChildStopped"}
    \/ /\ msg.type \in {"trialCompleteOperation", "trialReportEarlyExit"}
       /\ answer = NoResponse

\* C36: a handler that changes the trial-state map or calls the Searcher
\* persists the snapshot before it is done, in every state of the
\* experiment, and the snapshot holds the trial-state map it leaves.
C36_HandlerPersistsSnapshot ==
    [][ChangesSnapshot(lastMsg', resp')
         => /\ snapshots' # <<>>
            /\ snapshots'[Len(snapshots')] = TrialSearcherState']_vars

====
